---- MODULE Spec2Model ----
(***************************************************************************)
(* Verification model of the AdonisJS editor extension: the Inertia link   *)
(* resolution pass (InertiaLinker.getLinks and its position mapper), the   *)
(* DocumentLinkFactory that turns link records into editor links, the      *)
(* AceExecutor terminal dispatch, and BaseCommand.handleExecCmd.           *)
(*                                                                         *)
(* Strings are sequences of one-character strings, so that splitting,      *)
(* searching, quote stripping and case folding are computed character by   *)
(* character as the code computes them.                                    *)
(***************************************************************************)
EXTENDS Integers, Sequences, FiniteSets

VARIABLES
    fileContent,    \* options.fileContent of the pass
    disk,           \* the files and directories the search primitive enumerates
    regexMatches,   \* what fileContent.matchAll(inertiaRegex) yields for fileContent
    matchesArray,   \* getLinks: matchesArray
    promises,       \* getLinks: promises, one per match, with its settlement
    order,          \* indices of the matches in the order their searches completed
    pc,             \* position of the getLinks call and of its caller
    result,         \* what getLinks returned
    docLinks,       \* what DocumentLinkFactory returned
    factoryInput,   \* the links handed to DocumentLinkFactory
    config,         \* the platform and ExtConfig.misc / Config.misc
    projects,       \* the AdonisJS projects of the workspace
    terminals,      \* window.terminals, each with the text sent to it
    activeTerminal, \* index of window.activeTerminal, 0 when there is none
    fgCalls,        \* the commands of the foreground exec calls, in call order
    spawned,        \* the child processes started by background exec calls
    cmdPc,          \* position of the running BaseCommand handler
    cmdArgs,        \* the options handleExecCmd was called with
    cmdRes,         \* what execCmd resolved to or rejected with
    shown,          \* the notifications of the current invocation
    outputChannel   \* the lines appended to the output channel

linkerVars == <<fileContent, disk, regexMatches, matchesArray, promises, order, pc,
                result, docLinks, factoryInput>>

envVars == <<config, projects, terminals, activeTerminal>>

aceVars == <<fgCalls, spawned>>

cmdVars == <<cmdPc, cmdArgs, cmdRes, shown, outputChannel>>

notLinker == <<envVars, aceVars, cmdVars>>

notAce == <<linkerVars, cmdVars>>

notCmd == <<linkerVars, aceVars>>

vars == <<linkerVars, envVars, aceVars, cmdVars>>

----------------------------------------------------------------------------
(* Bounds of the model *)

MaxTextLen == 3

MaxMatches == 2

MaxRouteLinks == 2

MaxCalls == 3

MaxTerminals == 3

----------------------------------------------------------------------------
(* Strings *)

NL == "\n"

SQ == "'"

DQ == "\""

Alphabet == {"a", ".", SQ, NL}

Texts == UNION {[1..n -> Alphabet] : n \in 0..MaxTextLen}

Null == <<"null">>

Min(S) == CHOOSE x \in S : \A y \in S : x <= y

Max(S) == CHOOSE x \in S : \A y \in S : x >= y

\* String.prototype.split('\n')
RECURSIVE Split(_)
Split(s) ==
    LET nls == {k \in 1..Len(s) : s[k] = NL}
    IN  IF nls = {} THEN <<s>>
        ELSE LET k == Min(nls)
             IN  <<SubSeq(s, 1, k - 1)>> \o Split(SubSeq(s, k + 1, Len(s)))

\* zero-based offsets at which `needle` occurs in `hay`
Occurrences(hay, needle) ==
    {k \in 0..(Len(hay) - Len(needle)) : SubSeq(hay, k + 1, k + Len(needle)) = needle}

\* String.prototype.includes
Includes(hay, needle) == Occurrences(hay, needle) # {}

\* String.prototype.indexOf
IndexOf(hay, needle) ==
    IF Includes(hay, needle) THEN Min(Occurrences(hay, needle)) ELSE -1

FindLastIndex(lines, cap) ==
    LET hits == {i \in 1..Len(lines) : Includes(lines[i], cap)}
    IN  IF hits = {} THEN -1 ELSE Max(hits) - 1

\* lines.findIndex((line) => line.includes(match[1])), zero-based, -1 when none
FindIndex(lines, cap) ==
    LET hits == {i \in 1..Len(lines) : Includes(lines[i], cap)}
    IN  IF hits = {} THEN -1 ELSE Min(hits) - 1

\* match[1].replace(/\"|\'/g, '')
StripQuotes(s) == SelectSeq(s, LAMBDA c : c \notin {SQ, DQ})

NoPosition == [line |-> -1, colStart |-> -1, colEnd |-> -1]

PositionOfNormalized(content, cap) ==
    LET lines == Split(content)
        line  == FindIndex(lines, StripQuotes(cap))
    IN  IF line = -1
        THEN [threw |-> TRUE, position |-> NoPosition]
        ELSE LET colStart == IndexOf(lines[line + 1], StripQuotes(cap))
             IN  [threw |-> FALSE,
                  position |-> [line |-> line, colStart |-> colStart,
                                colEnd |-> colStart + Len(StripQuotes(cap))]]

\* InertiaLinker.#matchIndexToPosition: lines[-1] is undefined, and reading
\* .indexOf of it throws a TypeError
matchIndexToPosition(content, cap) ==
    LET lines == Split(content)
        line  == FindIndex(lines, cap)
    IN  IF line = -1
        THEN [threw |-> TRUE, position |-> NoPosition]
        ELSE LET colStart == IndexOf(lines[line + 1], cap)
             IN  [threw |-> FALSE,
                  position |-> [line |-> line, colStart |-> colStart,
                                colEnd |-> colStart + Len(cap)]]

----------------------------------------------------------------------------
(* Path resolution of one match (getLinks, the map callback) *)

ProjectPath == <<"/", "r">>

PagesDirectory == <<"p">>

VueExt == <<".", "v", "u", "e">>

\* .replace(/\./g, '/')
DotsToSlashes(s) == [k \in 1..Len(s) |-> IF s[k] = "." THEN "/" ELSE s[k]]

\* path.join's normalisation: runs of separators collapse to one
RECURSIVE CollapseSlashes(_)
CollapseSlashes(s) ==
    IF Len(s) <= 1 THEN s
    ELSE IF s[1] = "/" /\ s[2] = "/" THEN CollapseSlashes(Tail(s))
         ELSE <<s[1]>> \o CollapseSlashes(Tail(s))

\* path.join(a, b, c) on a posix host
join(a, b, c) == CollapseSlashes(a \o <<"/">> \o b \o <<"/">> \o c)

\* slash(path): backslashes become forward slashes
slash(s) == [k \in 1..Len(s) |-> IF s[k] = "\\" THEN "/" ELSE s[k]]

\* the glob pattern the callback hands to the search
SearchPattern(cap) ==
    LET fileName == DotsToSlashes(StripQuotes(cap))
        fullName == join(ProjectPath, PagesDirectory, fileName \o VueExt)
    IN  slash(fullName)

ToLower(c) == IF c = "A" THEN "a" ELSE c

LowerCase(s) == [k \in 1..Len(s) |-> ToLower(s[k])]

\* what the pattern matches: same path up to letter case
GlobMatches(pattern, path) == LowerCase(pattern) = LowerCase(path)

\* fg(pattern, { onlyFiles: true, caseSensitiveMatch: false, cwd })
fg(pattern, entries) ==
    LET hits == SelectSeq(entries,
                          LAMBDA e : e.kind = "file" /\ GlobMatches(pattern, e.path))
    IN  [k \in 1..Len(hits) |-> hits[k].path]

PickLast(files) == files[Len(files)]

\* files[0]
PickFirst(files) == files[1]

\* lines 45-52: the link record of a match once its search has returned
LinkOf(files, position) ==
    IF Len(files) = 0
    THEN [templatePath |-> Null, position |-> position]
    ELSE [templatePath |-> slash(PickFirst(files)), position |-> position]

NoLink == [templatePath |-> Null, position |-> NoPosition]

----------------------------------------------------------------------------
(* The inputs of a pass *)

FileUpper == [path |-> <<"/", "r", "/", "p", "/", "A", ".", "v", "u", "e">>, kind |-> "file"]

FileLower == [path |-> <<"/", "r", "/", "p", "/", "a", ".", "v", "u", "e">>, kind |-> "file"]

DirLower == [path |-> <<"/", "r", "/", "p", "/", "a", ".", "v", "u", "e">>, kind |-> "dir"]

FileNested == [path |-> <<"/", "r", "/", "p", "/", "a", "/", "A", ".", "v", "u", "e">>,
               kind |-> "file"]

Disks == {<<>>, <<FileLower, FileUpper>>, <<DirLower, FileNested, FileUpper>>}

\* the captures a pattern with one capture group can extract from a text:
\* non-empty, non-overlapping spans, left to right
Spans(text) == {sp \in (1..Len(text)) \X (1..Len(text)) : sp[1] <= sp[2]}

RECURSIVE SpanSeqs(_, _)
SpanSeqs(text, n) ==
    IF n = 0 THEN {<<>>}
    ELSE LET shorter == SpanSeqs(text, n - 1)
         IN  shorter \cup
             {Append(q, sp) : q \in {r \in shorter : Len(r) = n - 1}, sp \in Spans(text)}

Ordered(q) == \A k \in 1..(Len(q) - 1) : q[k][2] < q[k + 1][1]

\* String.prototype.matchAll(inertiaRegex): match.index and match[1] of each match
MatchAll(text) ==
    {[k \in 1..Len(q) |-> [index |-> q[k][1] - 1, capture |-> SubSeq(text, q[k][1], q[k][2])]] :
        q \in {r \in SpanSeqs(text, MaxMatches) : Ordered(r)}}

----------------------------------------------------------------------------
(* InertiaLinker.getLinks *)

Pending(pattern) ==
    [status |-> "pending", reason |-> "", pattern |-> pattern, files |-> <<>>, value |-> NoLink]

InitLinker ==
    /\ fileContent \in Texts
    /\ disk \in Disks
    /\ regexMatches \in MatchAll(fileContent)
    /\ matchesArray = <<>>
    /\ promises = <<>>
    /\ order = <<>>
    /\ pc = "idle"
    /\ result = <<>>
    /\ docLinks = <<>>
    /\ factoryInput = <<>>

\* lines 24-38: the matches are collected and every callback runs up to its await
GetLinks ==
    /\ pc = "idle"
    /\ matchesArray' = regexMatches
    /\ promises' = [i \in 1..Len(regexMatches) |->
                        Pending(SearchPattern(regexMatches[i].capture))]
    /\ pc' = "awaiting"
    /\ UNCHANGED <<notLinker, fileContent, disk, regexMatches, order, result, docLinks, factoryInput>>

\* lines 34-52: the search of match i returns and the callback runs to its end
FgResolves(i) ==
    /\ pc \in {"awaiting", "rejected"}
    /\ i \in 1..Len(promises)
    /\ promises[i].status = "pending"
    /\ LET files == fg(promises[i].pattern, disk)
           located == matchIndexToPosition(fileContent, matchesArray[i].capture)
       IN  promises' = [promises EXCEPT ![i] =
                IF located.threw
                THEN [@ EXCEPT !.status = "rejected", !.reason = "TypeError", !.files = files]
                ELSE [@ EXCEPT !.status = "fulfilled", !.files = files,
                               !.value = LinkOf(files, located.position)]]
    /\ order' = Append(order, i)
    /\ UNCHANGED <<notLinker, fileContent, disk, regexMatches, matchesArray, pc, result, docLinks,
                   factoryInput>>

\* line 34: the search of match i fails (I/O or permission error)
FgRejects(i) ==
    /\ pc \in {"awaiting", "rejected"}
    /\ i \in 1..Len(promises)
    /\ promises[i].status = "pending"
    /\ promises' = [promises EXCEPT ![i] =
                        [@ EXCEPT !.status = "rejected", !.reason = "SearchFailure"]]
    /\ order' = Append(order, i)
    /\ UNCHANGED <<notLinker, fileContent, disk, regexMatches, matchesArray, pc, result, docLinks,
                   factoryInput>>

GatherByCompletion(ps, completed) == [k \in 1..Len(ps) |-> ps[completed[k]].value]

\* Promise.all: the values by index of the promise
Gather(ps, completed) == [k \in 1..Len(ps) |-> ps[k].value]

\* Boolean(link): every link record is an object, hence truthy
Truthy(link) == TRUE

\* lines 55-56: all callbacks fulfilled
PromiseAllFulfils ==
    /\ pc = "awaiting"
    /\ \A i \in 1..Len(promises) : promises[i].status = "fulfilled"
    /\ result' = SelectSeq(Gather(promises, order), Truthy)
    /\ pc' = "returned"
    /\ UNCHANGED <<notLinker, fileContent, disk, regexMatches, matchesArray, promises, order, docLinks,
                   factoryInput>>

\* line 55: a callback rejected, the await throws and getLinks rejects
PromiseAllRejects ==
    /\ pc = "awaiting"
    /\ \E i \in 1..Len(promises) : promises[i].status = "rejected"
    /\ pc' = "rejected"
    /\ UNCHANGED <<notLinker, fileContent, disk, regexMatches, matchesArray, promises, order, result,
                   docLinks, factoryInput>>

----------------------------------------------------------------------------
(* DocumentLinkFactory *)

\* Uri.parse(pathToFileURL(path).href)
FileUri(path) == <<"file://">> \o path

\* new Range(new Position(line, colStart), new Position(line, colEnd))
RangeOf(position) ==
    [start |-> [line |-> position.line, character |-> position.colStart],
     end   |-> [line |-> position.line, character |-> position.colEnd]]

KeepAllViews(link) == TRUE

\* (link) => link.templatePath !== null
HasTemplate(link) == link.templatePath # Null

\* DocumentLinkFactory.fromViewLink
fromViewLink(links) ==
    LET kept == SelectSeq(links, HasTemplate)
    IN  [k \in 1..Len(kept) |->
            [range |-> RangeOf(kept[k].position), target |-> FileUri(kept[k].templatePath)]]

\* (link) => link.controllerPath !== null
HasController(link) == link.controllerPath # Null

\* DocumentLinkFactory.fromControllerLink
fromControllerLink(links) ==
    LET kept == SelectSeq(links, HasController)
    IN  [k \in 1..Len(kept) |->
            [range |-> RangeOf(kept[k].position),
             filePath |-> FileUri(kept[k].controllerPath),
             controller |-> kept[k].controller]]

\* the caller of getLinks hands its result to the factory
FromViewLink ==
    /\ pc = "returned"
    /\ factoryInput' = result
    /\ docLinks' = fromViewLink(result)
    /\ pc' = "linked"
    /\ UNCHANGED <<notLinker, fileContent, disk, regexMatches, matchesArray, promises, order, result>>

\* the route links a route provider hands to the factory
RouteLinks ==
    [controllerPath : {Null, <<"/", "r", "/", "c">>},
     position : {[line |-> 0, colStart |-> 1, colEnd |-> 3],
                 [line |-> 2, colStart |-> 0, colEnd |-> 1]},
     controller : {"UsersController.index"}]

RouteLinkSeqs == UNION {[1..n -> RouteLinks] : n \in 0..MaxRouteLinks}

InitRoutes ==
    /\ fileContent = <<>>
    /\ disk = <<>>
    /\ regexMatches = <<>>
    /\ matchesArray = <<>>
    /\ promises = <<>>
    /\ order = <<>>
    /\ pc = "routes"
    /\ result = <<>>
    /\ docLinks = <<>>
    /\ factoryInput \in RouteLinkSeqs

FromControllerLink ==
    /\ pc = "routes"
    /\ docLinks' = fromControllerLink(factoryInput)
    /\ pc' = "routesLinked"
    /\ UNCHANGED <<notLinker, fileContent, disk, regexMatches, matchesArray, promises, order, result,
                   factoryInput>>

----------------------------------------------------------------------------
(* The link resolution engine *)

NoConfig == [isWindows |-> FALSE, useUnixCd |-> FALSE, nodePath |-> ""]

EnvIdle ==
    /\ config = NoConfig
    /\ projects = <<>>
    /\ terminals = <<>>
    /\ activeTerminal = 0

AceIdle ==
    /\ fgCalls = <<>>
    /\ spawned = <<>>

NoArgs ==
    [command |-> <<>>, successMessage |-> "", errorMessage |-> "", fileType |-> "",
     openCreatedFile |-> FALSE, background |-> FALSE, success |-> <<>>, error |-> <<>>]

NoRes == [status |-> "none", errorCode |-> -1, project |-> 0, hasResult |-> FALSE]

CmdIdle ==
    /\ cmdPc = "off"
    /\ cmdArgs = NoArgs
    /\ cmdRes = NoRes
    /\ shown = <<>>
    /\ outputChannel = <<>>

LinkerIdle ==
    /\ fileContent = <<>>
    /\ disk = <<>>
    /\ regexMatches = <<>>
    /\ matchesArray = <<>>
    /\ promises = <<>>
    /\ order = <<>>
    /\ pc = "off"
    /\ result = <<>>
    /\ docLinks = <<>>
    /\ factoryInput = <<>>

Init == (InitLinker \/ InitRoutes) /\ EnvIdle /\ AceIdle /\ CmdIdle

Next ==
    \/ GetLinks
    \/ \E i \in 1..MaxMatches : FgResolves(i)
    \/ \E i \in 1..MaxMatches : FgRejects(i)
    \/ PromiseAllFulfils
    \/ PromiseAllRejects
    \/ FromViewLink
    \/ FromControllerLink

Spec == Init /\ [][Next]_vars

----------------------------------------------------------------------------
(* Properties of the link resolution engine *)

Settled(i) == promises[i].status # "pending"

Fulfilled(i) == promises[i].status = "fulfilled"

Returned == pc \in {"returned", "linked"}

Capture(i) == matchesArray[i].capture

\* the line and the column of a zero-based character offset of the text
LineOfOffset(text, off) == Cardinality({k \in 1..off : text[k] = NL})

ColumnOfOffset(text, off) ==
    LET before == {k \in 1..off : text[k] = NL}
    IN  IF before = {} THEN off ELSE off - Max(before)

\* the k-th smallest element of a set of numbers
NthOf(S, k) == CHOOSE n \in S : Cardinality({m \in S : m < n}) = k - 1

\* the characters of a line between the two columns of a position
SliceOfLine(text, position) ==
    SubSeq(Split(text)[position.line + 1], position.colStart + 1, position.colEnd)

\* C1: whenever getLinks returns, it returns one record per match, and the
\* i-th record is the one the callback of the i-th match (in source order)
\* produced, whatever the order in which the searches completed.
C1_OrderPreserved ==
    Returned =>
        /\ Len(result) = Len(regexMatches)
        /\ \A i \in 1..Len(result) :
              /\ result[i] = promises[i].value
              /\ SliceOfLine(fileContent, result[i].position) = regexMatches[i].capture
        /\ \A i \in 1..(Len(regexMatches) - 1) :
              regexMatches[i].index < regexMatches[i + 1].index

C1_Witness ==
    /\ pc = "returned"
    /\ Len(result) = 2
    /\ order = <<2, 1>>
    /\ result[1] # result[2]

\* C2: a failing search is confined to its match: once the pass has settled
\* and the only rejections are search failures, the links of the fulfilled
\* sibling matches are in the result.
C2_FailureConfined ==
    (/\ pc \notin {"idle", "awaiting", "routes", "routesLinked"}
     /\ \A j \in 1..Len(promises) :
            /\ Settled(j)
            /\ promises[j].status = "rejected" => promises[j].reason = "SearchFailure")
    => \A i \in 1..Len(promises) :
            Fulfilled(i) => \E k \in 1..Len(result) : result[k] = promises[i].value

\* C3: when the search of a match returns no file, the callback does not
\* throw: it yields a link with a null target that carries the position.
C3_NotFoundIsNoError ==
    \A i \in 1..Len(promises) :
        (Settled(i) /\ promises[i].reason # "SearchFailure" /\ promises[i].files = <<>>)
        => /\ Fulfilled(i)
           /\ promises[i].value.templatePath = Null
           /\ promises[i].value.position # NoPosition

C5_FirstLineFirstOccurrence ==
    LET lines == Split(fileContent)
    IN  /\ \A i \in 1..Len(promises) :
              (Settled(i) /\ promises[i].reason # "SearchFailure"
                          /\ \E l \in 1..Len(lines) : Includes(lines[l], Capture(i)))
              => LET position == promises[i].value.position
                     found == IF position.line \in 0..(Len(lines) - 1)
                              THEN Occurrences(lines[position.line + 1], Capture(i))
                              ELSE {}
                 IN  /\ Fulfilled(i)
                     /\ position.colStart \in found
                     /\ \A c \in found : position.colStart <= c
                     /\ \A l \in 1..position.line : ~Includes(lines[l], Capture(i))
                     /\ position.colEnd = position.colStart + Len(Capture(i))
        /\ \A i, j \in 1..Len(promises) :
              (Fulfilled(i) /\ Fulfilled(j) /\ Capture(i) = Capture(j))
              => promises[i].value.position = promises[j].value.position

C5_Witness ==
    /\ Len(promises) = 2
    /\ Fulfilled(1) /\ Fulfilled(2)
    /\ Capture(1) = Capture(2)
    /\ LineOfOffset(fileContent, matchesArray[1].index)
         # LineOfOffset(fileContent, matchesArray[2].index)
    /\ promises[2].value.position.line = LineOfOffset(fileContent, matchesArray[1].index)

\* C6: when the capture is contained in no single line, the position mapper
\* yields a degenerate position instead of throwing and the callback completes.
C6_NoLineIsDegenerate ==
    \A i \in 1..Len(promises) :
        (Settled(i) /\ promises[i].reason # "SearchFailure"
                    /\ \A l \in 1..Len(Split(fileContent)) :
                          ~Includes(Split(fileContent)[l], Capture(i)))
        => /\ Fulfilled(i)
           /\ promises[i].value.position = NoPosition

\* the reference of C7: quotes deleted, every dot a slash
RECURSIVE C7_Converted(_)
C7_Converted(cap) ==
    IF cap = <<>> THEN <<>>
    ELSE IF Head(cap) \in {SQ, DQ} THEN C7_Converted(Tail(cap))
         ELSE IF Head(cap) = "." THEN <<"/">> \o C7_Converted(Tail(cap))
              ELSE <<Head(cap)>> \o C7_Converted(Tail(cap))

C7_SameButCase(p, q) ==
    /\ Len(p) = Len(q)
    /\ \A k \in 1..Len(p) : p[k] = q[k] \/ {p[k], q[k]} = {"a", "A"}

\* C7: the search pattern of a match is root/pages/<converted>.vue with the
\* quotes stripped, the dots turned into slashes and runs of slashes joined
\* into one; the target is the first
\* file, in enumeration order, whose path equals the pattern up to letter case
\* (directories never count), and absent when there is none.
C7_ViewResolution ==
    \A i \in 1..Len(promises) :
        Fulfilled(i) =>
            LET pattern == promises[i].pattern
                raw == ProjectPath \o <<"/">> \o PagesDirectory \o <<"/">>
                         \o C7_Converted(Capture(i)) \o VueExt
                hits == {k \in 1..Len(disk) :
                            disk[k].kind = "file" /\ C7_SameButCase(pattern, disk[k].path)}
                kept == {k \in 1..Len(raw) : raw[k] # "/" \/ k = 1 \/ raw[k - 1] # "/"}
            IN  /\ Len(pattern) = Cardinality(kept)
                /\ \A k \in kept : pattern[Cardinality({j \in kept : j <= k})] = raw[k]
                /\ hits = {} => promises[i].value.templatePath = Null
                /\ hits # {} => promises[i].value.templatePath = disk[Min(hits)].path

C7_Witness ==
    \E i \in 1..Len(promises) :
        /\ Fulfilled(i)
        /\ Capture(i) = <<"a", ".", "a">>
        /\ promises[i].pattern = <<"/", "r", "/", "p", "/", "a", "/", "a", ".", "v", "u", "e">>
        /\ promises[i].value.templatePath = FileNested.path

C8_SameRange(doc, position) ==
    /\ doc.range.start = [line |-> position.line, character |-> position.colStart]
    /\ doc.range.end = [line |-> position.line, character |-> position.colEnd]

\* C8: getLinks keeps the unresolved links in its result; the factory returns
\* exactly the links with a non-null target, in their relative order, each
\* with the range of its position on its line.
C8_FilteringIsTheCallers ==
    /\ Returned =>
          /\ Len(result) = Len(matchesArray)
          /\ \A i \in 1..Len(promises) :
                promises[i].files = <<>> =>
                    \E k \in 1..Len(result) : result[k].templatePath = Null
    /\ pc = "linked" =>
          LET kept == {n \in 1..Len(factoryInput) : factoryInput[n].templatePath # Null}
          IN  /\ factoryInput = result
              /\ Len(docLinks) = Cardinality(kept)
              /\ \A k \in 1..Len(docLinks) :
                    LET link == factoryInput[NthOf(kept, k)]
                    IN  /\ C8_SameRange(docLinks[k], link.position)
                        /\ docLinks[k].target = <<"file://">> \o link.templatePath
    /\ pc = "routesLinked" =>
          LET kept == {n \in 1..Len(factoryInput) : factoryInput[n].controllerPath # Null}
          IN  /\ Len(docLinks) = Cardinality(kept)
              /\ \A k \in 1..Len(docLinks) :
                    LET link == factoryInput[NthOf(kept, k)]
                    IN  /\ C8_SameRange(docLinks[k], link.position)
                        /\ docLinks[k].filePath = <<"file://">> \o link.controllerPath
                        /\ docLinks[k].controller = link.controller

C8_Witness ==
    /\ pc = "linked"
    /\ Len(factoryInput) = 2
    /\ factoryInput[1].templatePath = Null
    /\ factoryInput[2].templatePath # Null
    /\ Len(docLinks) = 1

----------------------------------------------------------------------------
(* The editor's terminals and the workspace *)

AceName == "AdonisJS Ace"

Configs == [isWindows : BOOLEAN, useUnixCd : BOOLEAN, nodePath : {"", "/opt/node"}]

ProjectApp == [name |-> "app", path |-> <<"/", "r">>]

ProjectApi == [name |-> "api", path |-> <<"c", ":", "/", "s">>]

AceCommands == {<<"serve">>, <<"configure", "pkg">>}

\* the terminals opened by the user before the extension runs
UserTerminals ==
    {<<>>,
     <<[name |-> "bash", by |-> "user", sent |-> <<>>]>>,
     <<[name |-> AceName, by |-> "user", sent |-> <<>>]>>}

\* path.startsWith('/') on win32: path.substring(1)
ExecPath(path) ==
    IF config.isWindows /\ path # <<>> /\ Head(path) = "/" THEN Tail(path) ELSE path

\* misc.nodePath || 'node'
NodeBinary == IF config.nodePath = "" THEN "node" ELSE config.nodePath

\* `"${nodePath}" ace ${command}` behind `cd "${path}" && `
CmdWithCd(path, command) ==
    [cd |-> IF config.isWindows /\ ~config.useUnixCd THEN "cd /d" ELSE "cd",
     path |-> path,
     node |-> NodeBinary,
     command |-> command]

\* terminal.show(); terminal.sendText(text) on terminal t, created when t is new
ShowAndSend(t, text, creator) ==
    /\ terminals' =
          IF t > Len(terminals)
          THEN Append(terminals, [name |-> AceName, by |-> creator, sent |-> <<text>>])
          ELSE [terminals EXCEPT ![t].sent = Append(@, text)]
    /\ activeTerminal' = t

\* the user opens a terminal, which takes the focus
UserOpensTerminal(name) ==
    /\ Len(terminals) < MaxTerminals
    /\ terminals' = Append(terminals, [name |-> name, by |-> "user", sent |-> <<>>])
    /\ activeTerminal' = Len(terminals) + 1

\* the user gives the focus to another terminal
UserFocusesTerminal(t) ==
    /\ t \in 1..Len(terminals)
    /\ t # activeTerminal
    /\ activeTerminal' = t
    /\ UNCHANGED terminals

----------------------------------------------------------------------------
(* AceExecutor *)

LookupActiveOnly(ts, active) ==
    IF active # 0 /\ ts[active].name = AceName THEN active ELSE Len(ts) + 1

\* window.terminals.find((t) => t.name === 'AdonisJS Ace'), or the index of
\* the terminal about to be created
LookupAceTerminal(ts, active) ==
    LET named == {t \in 1..Len(ts) : ts[t].name = AceName}
    IN  IF named = {} THEN Len(ts) + 1 ELSE Min(named)

CallsMade == Len(fgCalls) + Len(spawned)

InitAce ==
    /\ LinkerIdle
    /\ CmdIdle
    /\ config \in Configs
    /\ projects = <<ProjectApp>>
    /\ terminals \in UserTerminals
    /\ activeTerminal = Len(terminals)
    /\ fgCalls = <<>>
    /\ spawned = <<>>

\* AceExecutor.exec({ adonisProject, command, background: true })
ExecBackground(p, command) ==
    /\ CallsMade < MaxCalls
    /\ spawned' = Append(spawned, [file |-> "ace", args |-> command,
                                   cwd |-> ExecPath(projects[p].path),
                                   nodePath |-> config.nodePath])
    /\ UNCHANGED <<notAce, config, projects, terminals, activeTerminal, fgCalls>>

\* AceExecutor.exec({ adonisProject, command, background: false })
ExecForeground(p, command) ==
    /\ CallsMade < MaxCalls
    /\ ShowAndSend(LookupAceTerminal(terminals, activeTerminal),
                   CmdWithCd(ExecPath(projects[p].path), command), "AceExecutor")
    /\ fgCalls' = Append(fgCalls, [project |-> p, command |-> command])
    /\ UNCHANGED <<notAce, config, projects, spawned>>

\* the user opens a terminal while AceExecutor is in use
AceUserOpensTerminal(name) ==
    /\ UserOpensTerminal(name)
    /\ UNCHANGED <<notAce, aceVars, config, projects>>

\* the user moves the focus while AceExecutor is in use
AceUserFocusesTerminal(t) ==
    /\ UserFocusesTerminal(t)
    /\ UNCHANGED <<notAce, aceVars, config, projects>>

NextAce ==
    \/ \E p \in 1..Len(projects), command \in AceCommands : ExecBackground(p, command)
    \/ \E p \in 1..Len(projects), command \in AceCommands : ExecForeground(p, command)
    \/ \E name \in {"bash", AceName} : AceUserOpensTerminal(name)
    \/ \E t \in 1..MaxTerminals : AceUserFocusesTerminal(t)

SpecAce == InitAce /\ [][NextAce]_vars

\* C9: while no terminal is closed, AceExecutor creates at most one terminal,
\* every foreground command is sent, in call order, to the first terminal
\* named 'AdonisJS Ace', whichever terminal has the focus, and a background
\* call creates no terminal and sends no text.
C9_OneAceTerminal ==
    LET created == {t \in 1..Len(terminals) : terminals[t].by = "AceExecutor"}
        named == {t \in 1..Len(terminals) : terminals[t].name = AceName}
    IN  /\ Cardinality(created) <= 1
        /\ fgCalls = <<>> => created = {}
        /\ \A t \in 1..Len(terminals) :
              (terminals[t].sent # <<>>) => (t \in named /\ \A u \in named : t <= u)
        /\ fgCalls # <<>> =>
              /\ named # {}
              /\ LET sent == terminals[Min(named)].sent
                 IN  /\ Len(sent) = Len(fgCalls)
                     /\ \A k \in 1..Len(sent) : sent[k].command = fgCalls[k].command

C9_Witness ==
    /\ Len(fgCalls) = 2
    /\ fgCalls[1] # fgCalls[2]
    /\ spawned # <<>>
    /\ Len(terminals) = 3
    /\ terminals[2].by = "AceExecutor"
    /\ Len(terminals[2].sent) = 2
    /\ terminals[3].name = AceName
    /\ activeTerminal = 1

----------------------------------------------------------------------------
(* BaseCommand *)

Undefined == "undefined"

ERR_ADONIS_PROJECT_SELECTION_NEEDED == 0

\* a string the `||` and `if` of the handler take for false
Falsy(message) == message \in {Undefined, ""}

\* a message is kept as the pieces it is built from
FalsyText(text) == text \in {<<Undefined>>, <<"">>}

\* successMessage || `${capitalize(fileType)} created successfully`
SuccessText(successMessage, fileType) ==
    IF Falsy(successMessage) THEN <<"capitalize", fileType, " created successfully">>
    ELSE <<successMessage>>

\* errorMessage || `Failed to create ${fileType.toLowerCase()}`
ErrorText(errorMessage, fileType) ==
    IF Falsy(errorMessage) THEN <<"Failed to create ", "toLowerCase", fileType>>
    ELSE <<errorMessage>>

\* BaseCommand.showMessage
ShowMessage(message) ==
    /\ shown' = Append(shown, [kind |-> "info", message |-> message, details |-> FALSE])
    /\ UNCHANGED outputChannel

\* BaseCommand.showError(message, consoleErr)
ShowError(message, consoleErr) ==
    /\ shown' = Append(shown, [kind |-> "error", message |-> message,
                               details |-> consoleErr # "null"])
    /\ outputChannel' = IF consoleErr # "null" THEN Append(outputChannel, consoleErr)
                        ELSE outputChannel

\* window.activeTerminal when it is named 'AdonisJS Ace', or the index of the
\* terminal about to be created
ActiveAdonisTerminal(ts, active) ==
    IF active # 0 /\ ts[active].name = AceName THEN active ELSE Len(ts) + 1

\* handleExecCmd, lines 146-163, once execCmd has settled with `res`
Settle(res) ==
    IF res.status = "rejected"
    THEN IF res.errorCode = ERR_ADONIS_PROJECT_SELECTION_NEEDED
         THEN ShowError(<<"You must select an AdonisJS project on which to run your command.">>,
                        "null")
         ELSE ShowError(cmdArgs.error, "exec failed")
    ELSE IF cmdArgs.openCreatedFile /\ ~res.hasResult
         THEN ShowError(cmdArgs.error, "TypeError")
         ELSE IF ~FalsyText(cmdArgs.success)
              THEN ShowMessage(cmdArgs.success)
              ELSE UNCHANGED <<shown, outputChannel>>

HandlerArgs ==
    [command : {<<"generate:manifest">>},
     successMessage : {Undefined, "", "Manifest generated successfully."},
     errorMessage : {Undefined, "Manifest generation failed."},
     fileType : {"test"},
     openCreatedFile : BOOLEAN,
     background : BOOLEAN]

WithDefaults(args) ==
    [command |-> args.command, successMessage |-> args.successMessage,
     errorMessage |-> args.errorMessage, fileType |-> args.fileType,
     openCreatedFile |-> args.openCreatedFile, background |-> args.background,
     success |-> SuccessText(args.successMessage, args.fileType),
     error |-> ErrorText(args.errorMessage, args.fileType)]

TextsSent == {<<t, k>> \in (1..Len(terminals)) \X (1..MaxCalls) : k <= Len(terminals[t].sent)}

InitCmd ==
    /\ LinkerIdle
    /\ fgCalls = <<>>
    /\ spawned = <<>>
    /\ config \in {c \in Configs : c.nodePath = ""}
    /\ projects \in {<<ProjectApp>>, <<ProjectApp, ProjectApi>>}
    /\ terminals \in UserTerminals
    /\ activeTerminal = Len(terminals)
    /\ cmdPc = "idle"
    /\ cmdArgs = NoArgs
    /\ cmdRes = NoRes
    /\ shown = <<>>
    /\ outputChannel = <<>>

\* handleExecCmd, lines 143-147: the defaults are applied and execCmd awaits
\* pickAdonisProject
HandleExecCmd(args) ==
    /\ cmdPc \in {"idle", "done"}
    /\ Cardinality(TextsSent) + Len(spawned) < MaxCalls
    /\ cmdArgs' = WithDefaults(args)
    /\ cmdRes' = NoRes
    /\ shown' = <<>>
    /\ cmdPc' = "picking"
    /\ UNCHANGED <<notCmd, envVars, outputChannel>>

\* Configure.run: the package name is asked for, and must not be empty
ConfigureRun(packageName) ==
    /\ cmdPc \in {"idle", "done"}
    /\ Cardinality(TextsSent) + Len(spawned) < MaxCalls
    /\ cmdRes' = NoRes
    /\ IF packageName = ""
       THEN /\ shown' = <<[kind |-> "error", message |-> <<"Package name is required.">>,
                           details |-> FALSE]>>
            /\ cmdArgs' = NoArgs
            /\ cmdPc' = "done"
       ELSE /\ shown' = <<>>
            /\ cmdArgs' = WithDefaults([command |-> <<"configure", packageName>>,
                                        successMessage |-> "",
                                        errorMessage |-> "Could not configure package.",
                                        fileType |-> "file",
                                        openCreatedFile |-> FALSE,
                                        background |-> FALSE])
            /\ cmdPc' = "picking"
    /\ UNCHANGED <<notCmd, envVars, outputChannel>>

\* execCmd, lines 174-206, with project `choice` picked (0: none), and for a
\* foreground command the rest of handleExecCmd
ProjectPicked(choice) ==
    /\ cmdPc = "picking"
    /\ choice \in 0..Len(projects)
    /\ Len(projects) = 1 => choice = 1
    /\ IF choice = 0
       THEN /\ cmdRes' = [status |-> "rejected",
                          errorCode |-> ERR_ADONIS_PROJECT_SELECTION_NEEDED,
                          project |-> 0, hasResult |-> FALSE]
            /\ Settle(cmdRes')
            /\ cmdPc' = "done"
            /\ UNCHANGED <<projects, terminals, activeTerminal, spawned>>
       ELSE /\ projects' = [projects EXCEPT ![choice].path = ExecPath(@)]
            /\ IF cmdArgs.background
               THEN /\ spawned' = Append(spawned,
                                        [file |-> NodeBinary,
                                         args |-> <<"ace">> \o cmdArgs.command,
                                         cwd |-> ExecPath(projects[choice].path),
                                         nodePath |-> config.nodePath])
                    /\ cmdRes' = [NoRes EXCEPT !.project = choice]
                    /\ cmdPc' = "executing"
                    /\ UNCHANGED <<terminals, activeTerminal, shown, outputChannel>>
               ELSE /\ ShowAndSend(ActiveAdonisTerminal(terminals, activeTerminal),
                                   CmdWithCd(ExecPath(projects[choice].path), cmdArgs.command),
                                   "BaseCommand")
                    /\ cmdRes' = [status |-> "fulfilled", errorCode |-> -1,
                                  project |-> choice, hasResult |-> FALSE]
                    /\ Settle(cmdRes')
                    /\ cmdPc' = "done"
                    /\ UNCHANGED spawned
    /\ UNCHANGED <<linkerVars, fgCalls, config, cmdArgs>>

\* execCmd, line 191: the child process exits, and the rest of handleExecCmd
ExecExits(ok) ==
    /\ cmdPc = "executing"
    /\ cmdRes' = IF ok THEN [cmdRes EXCEPT !.status = "fulfilled", !.hasResult = TRUE]
                 ELSE [cmdRes EXCEPT !.status = "rejected"]
    /\ Settle(cmdRes')
    /\ cmdPc' = "done"
    /\ UNCHANGED <<notCmd, envVars, cmdArgs>>

\* the user moves the focus between two commands
CmdUserFocusesTerminal(t) ==
    /\ cmdPc \in {"idle", "done"}
    /\ UserFocusesTerminal(t)
    /\ UNCHANGED <<notCmd, cmdVars, config, projects>>

NextCmd ==
    \/ \E args \in HandlerArgs : HandleExecCmd(args)
    \/ \E packageName \in {"", "pkg"} : ConfigureRun(packageName)
    \/ \E choice \in 0..2 : ProjectPicked(choice)
    \/ \E ok \in BOOLEAN : ExecExits(ok)
    \/ \E t \in 1..MaxTerminals : CmdUserFocusesTerminal(t)

SpecCmd == InitCmd /\ [][NextCmd]_vars

\* C10: a success notification is shown only when the success message given
\* to handleExecCmd is not empty, so Configure.run, which gives '', shows none;
\* and no invocation shows both a success and an error notification.
C10_EmptyMessageIsSilent ==
    LET infos == {k \in 1..Len(shown) : shown[k].kind = "info"}
        errors == {k \in 1..Len(shown) : shown[k].kind = "error"}
    IN  /\ (cmdPc = "done" /\ cmdArgs.successMessage = "" /\ cmdArgs.command # <<>>)
              => infos = {}
        /\ infos = {} \/ errors = {}

====
